---- MODULE Spec2Model ----
(***************************************************************************)
(* ServiceModule of lazy-di: module assembly (from), graph validation      *)
(* (checkCircularDependencies, checkMissingDependencies), asynchronous     *)
(* resolution (get, getOrNull) and disposal (dispose).                     *)
(*                                                                         *)
(* A key is modelled by its symbol; labels are taken to be as distinct as  *)
(* the symbols, so one string stands for both.  A dependency entry is a    *)
(* plain key or a selector key with its ordered member keys.               *)
(***************************************************************************)
EXTENDS Integers, Sequences, FiniteSets, TLC

\* ------------------------------------------------------------------------
\* Bounds
\* ------------------------------------------------------------------------
MaxEntries == 3

\* client calls of get and getOrNull
MaxCalls == 2

\* get calls in all, those made for dependencies included
MaxTasks == 4

\* fetches through Selector handles
MaxSelectorGets == 1

\* ------------------------------------------------------------------------
\* Keys, dependency entries, factories
\* ------------------------------------------------------------------------
Keys == {"A", "B", "C"}

NoScope == "none"

Plain(k) == [sel |-> FALSE, key |-> k, values |-> <<>>]

Selector(ks) == [sel |-> TRUE, key |-> "selector", values |-> ks]

Factory(i, k, deps, single, sc, disp) ==
    [id |-> i, provides |-> k, dependsOn |-> deps,
     singleton |-> single, scope |-> sc, hasDispose |-> disp]

OneShot(i, k, deps) == Factory(i, k, deps, FALSE, NoScope, FALSE)

Range(s) == {s[i] : i \in 1..Len(s)}

\* ------------------------------------------------------------------------
\* isRegistered / isSuitable
\* ------------------------------------------------------------------------
isRegistered(key, factories) ==
    \E i \in 1..Len(factories) : factories[i].provides = key

isSuitable(key, factory) == factory.provides = key

\* A search that starts at the second factory
FindFactory_SkipsFirst(key, factories) ==
    IF \E i \in 2..Len(factories) : isSuitable(key, factories[i])
    THEN CHOOSE i \in 2..Len(factories) : isSuitable(key, factories[i])
    ELSE 0

\* Array.prototype.find: the first suitable factory, 0 when there is none
FindFactory(key, factories) ==
    IF \E i \in 1..Len(factories) : isSuitable(key, factories[i])
    THEN CHOOSE i \in 1..Len(factories) :
            /\ isSuitable(key, factories[i])
            /\ \A j \in 1..(i - 1) : ~isSuitable(key, factories[j])
    ELSE 0

\* ------------------------------------------------------------------------
\* ServiceModule.from: flatten, last-wins deduplication, validation
\* ------------------------------------------------------------------------
FactoryEntry(f) == [module |-> FALSE, factories |-> <<f>>]

ModuleEntry(fs) == [module |-> TRUE, factories |-> fs]

RECURSIVE Flatten(_)
Flatten(entries) ==
    IF entries = <<>> THEN <<>>
    ELSE Head(entries).factories \o Flatten(Tail(entries))

\* A Map that never overwrites: every set appends
MapSet_AlwaysAppend(byKey, f) == Append(byKey, f)

\* A Map whose first value for a key wins
MapSet_FirstWins(byKey, f) ==
    IF \E i \in 1..Len(byKey) : byKey[i].provides = f.provides
    THEN byKey
    ELSE Append(byKey, f)

\* Map.set: a new key is appended in insertion order, an existing key keeps
\* its position and takes the new value
MapSet(byKey, f) ==
    IF \E i \in 1..Len(byKey) : byKey[i].provides = f.provides
    THEN [i \in 1..Len(byKey) |->
            IF byKey[i].provides = f.provides THEN f ELSE byKey[i]]
    ELSE Append(byKey, f)

RECURSIVE ByKey(_, _)
ByKey(flattened, byKey) ==
    IF flattened = <<>> THEN byKey
    ELSE ByKey(Tail(flattened), MapSet(byKey, Head(flattened)))

Dedup(flattened) == ByKey(flattened, <<>>)

\* keysToCheck of every dependency entry, in dependsOn order
RECURSIVE KeysToCheck(_)
KeysToCheck(dependsOn) ==
    IF dependsOn = <<>> THEN <<>>
    ELSE (IF Head(dependsOn).sel THEN Head(dependsOn).values
                                 ELSE <<Head(dependsOn).key>>)
         \o KeysToCheck(Tail(dependsOn))

\* factoryMap.get(symbol): the last factory set under the symbol, 0 if none
FactoryMapGet(key, factories) ==
    IF isRegistered(key, factories)
    THEN CHOOSE i \in 1..Len(factories) :
            /\ factories[i].provides = key
            /\ \A j \in (i + 1)..Len(factories) : factories[j].provides # key
    ELSE 0

\* The traversal state of checkCircularDependencies: visited, stack and the
\* path of the error thrown (empty while none is thrown).
WalkStart == [visited |-> {}, stack |-> {}, thrown |-> <<>>]

RECURSIVE walk(_, _, _, _)
RECURSIVE WalkKeys(_, _, _, _, _)
walk(factory, path, st, factories) ==
    LET symbol == factory.provides IN
    IF st.thrown # <<>> THEN st
    ELSE IF symbol \in st.stack
         THEN [st EXCEPT !.thrown = Append(path, factory.provides)]
    ELSE IF symbol \in st.visited THEN st
    ELSE LET entered == [st EXCEPT !.visited = @ \cup {symbol},
                                   !.stack = @ \cup {symbol}]
             after == WalkKeys(KeysToCheck(factory.dependsOn), factory,
                               path, entered, factories)
         IN  IF after.thrown # <<>> THEN after
             ELSE [after EXCEPT !.stack = @ \ {symbol}]

WalkKeys(keys, factory, path, st, factories) ==
    IF keys = <<>> \/ st.thrown # <<>> THEN st
    ELSE LET d == FactoryMapGet(Head(keys), factories)
             next == IF d = 0 THEN st
                     ELSE walk(factories[d], Append(path, factory.provides),
                               st, factories)
         IN  WalkKeys(Tail(keys), factory, path, next, factories)

\* A traversal that starts at the first factory only
WalkAll_FirstOnly(i, st, factories) ==
    IF factories = <<>> THEN st
    ELSE walk(factories[1], <<>>, st, factories)

RECURSIVE WalkAll(_, _, _)
WalkAll(i, st, factories) ==
    IF i > Len(factories) \/ st.thrown # <<>> THEN st
    ELSE WalkAll(i + 1, walk(factories[i], <<>>, st, factories), factories)

\* The path of the cycle error, <<>> when checkCircularDependencies returns
checkCircularDependencies(factories) == WalkAll(1, WalkStart, factories).thrown

\* A check that stops at the first missing key
RECURSIVE MissingOf_FirstOnly(_, _)
MissingOf_FirstOnly(keys, factories) ==
    IF keys = <<>> THEN <<>>
    ELSE IF isRegistered(Head(keys), factories)
         THEN MissingOf_FirstOnly(Tail(keys), factories)
         ELSE <<Head(keys)>>

\* missingDependencies of one factory, in push order
RECURSIVE MissingOf(_, _)
MissingOf(keys, factories) ==
    IF keys = <<>> THEN <<>>
    ELSE (IF isRegistered(Head(keys), factories) THEN <<>> ELSE <<Head(keys)>>)
         \o MissingOf(Tail(keys), factories)

\* A check that looks at the plain dependencies only
checkMissingDependencies_PlainOnly(factory, factories) ==
    MissingOf(SelectSeq([i \in 1..Len(factory.dependsOn) |->
                           IF factory.dependsOn[i].sel THEN "-"
                           ELSE factory.dependsOn[i].key],
                        LAMBDA k : k # "-"),
              factories)

checkMissingDependencies(factory, factories) ==
    MissingOf(KeysToCheck(factory.dependsOn), factories)

\* factories.forEach(checkMissingDependencies): the first factory that throws
FirstMissing(factories) ==
    IF \E i \in 1..Len(factories) :
          checkMissingDependencies(factories[i], factories) # <<>>
    THEN CHOOSE i \in 1..Len(factories) :
            /\ checkMissingDependencies(factories[i], factories) # <<>>
            /\ \A j \in 1..(i - 1) :
                  checkMissingDependencies(factories[j], factories) = <<>>
    ELSE 0

NoFactory == OneShot(0, "-", <<>>)

\* The constructor: a module, or the ServiceModuleInitError it throws
Construct(factories) ==
    LET cyclePath == checkCircularDependencies(factories)
        m == FirstMissing(factories)
    IN  IF cyclePath # <<>>
        THEN [kind |-> "cycle", factories |-> <<>>, path |-> cyclePath,
              offender |-> NoFactory, missing |-> <<>>]
        ELSE IF m # 0
        THEN [kind |-> "missing", factories |-> <<>>, path |-> <<>>,
              offender |-> factories[m],
              missing |-> checkMissingDependencies(factories[m], factories)]
        ELSE [kind |-> "module", factories |-> factories, path |-> <<>>,
              offender |-> NoFactory, missing |-> <<>>]

from(entries) == Construct(Dedup(Flatten(entries)))

\* ------------------------------------------------------------------------
\* Inputs of from
\* ------------------------------------------------------------------------
\* The dependsOn lists the factories of the pool are built with
Shapes ==
    << <<>>,
       <<Plain("A")>>,
       <<Plain("B")>>,
       <<Plain("C")>>,
       <<Plain("B"), Plain("C")>>,
       <<Selector(<<"B">>)>>,
       <<Plain("C"), Selector(<<"C", "A">>)>> >>

KeyNo(k) == CASE k = "A" -> 0 [] k = "B" -> 1 [] k = "C" -> 2

FactoryPool ==
    {OneShot(100 + KeyNo(k) * Len(Shapes) + s, k, Shapes[s]) :
        k \in Keys, s \in 1..Len(Shapes)}

PoolFactory(k, s) == OneShot(100 + KeyNo(k) * Len(Shapes) + s, k, Shapes[s])

\* Modules built earlier, passed to from as entries
ModulePool ==
    {from(es).factories :
        es \in {<<FactoryEntry(PoolFactory("A", 1))>>,
                <<FactoryEntry(PoolFactory("B", 1)),
                  FactoryEntry(PoolFactory("A", 3))>>,
                <<FactoryEntry(PoolFactory("C", 1)),
                  FactoryEntry(PoolFactory("B", 4)),
                  FactoryEntry(PoolFactory("C", 1))>>}}

EntryPool == {FactoryEntry(f) : f \in FactoryPool}
             \cup {ModuleEntry(m) : m \in ModulePool}

\* Scopes and the factories of the modules that get and dispose run on
Scope1 == "Scope1"

Scope2 == "Scope2"

Scopes == {Scope1, Scope2}

Singleton(i, k, deps, sc, disp) == Factory(i, k, deps, TRUE, sc, disp)

Transient(i, k, deps, sc, disp) == Factory(i, k, deps, FALSE, sc, disp)

\* A module entry followed by overriding factories: singleton A is reached
\* from C directly and through B
SharedSingleton ==
    << FactoryEntry(Transient(1, "A", <<>>, Scope2, TRUE)),
       ModuleEntry(from(<< FactoryEntry(Singleton(2, "A", <<>>, Scope1, FALSE)),
                           FactoryEntry(Transient(3, "B", <<Plain("A")>>,
                                                  Scope1, TRUE)) >>).factories),
       FactoryEntry(Transient(4, "C", <<Plain("A"), Plain("B")>>,
                              NoScope, FALSE)),
       FactoryEntry(Singleton(5, "A", <<>>, Scope1, TRUE)) >>

\* transient A is reached from C directly and through singleton B
SharedTransient ==
    << FactoryEntry(Transient(6, "C", <<Plain("B"), Plain("A")>>,
                              Scope2, TRUE)),
       FactoryEntry(Singleton(7, "B", <<Plain("A")>>, Scope1, FALSE)),
       FactoryEntry(Transient(8, "A", <<>>, Scope1, TRUE)) >>

\* C takes a selector over A and B, and B as a plain dependency
WithSelector ==
    << FactoryEntry(Transient(9, "A", <<>>, NoScope, FALSE)),
       FactoryEntry(Singleton(10, "B", <<>>, Scope2, TRUE)),
       FactoryEntry(Singleton(11, "B", <<>>, Scope1, TRUE)),
       FactoryEntry(Transient(12, "C", <<Selector(<<"A", "B">>), Plain("B")>>,
                              Scope1, FALSE)) >>

Scenarios == {SharedSingleton, SharedTransient, WithSelector}

\* a key no factory of any scenario provides
Unregistered == "Z"

RequestKeys == Keys \cup {Unregistered}

\* ------------------------------------------------------------------------
\* Values and errors
\* ------------------------------------------------------------------------
NoValue == [kind |-> "none", of |-> 0, members |-> <<>>]

Null == [kind |-> "null", of |-> 0, members |-> <<>>]

\* the object made by constructor invocation r
Instance(r) == [kind |-> "instance", of |-> r, members |-> <<>>]

\* new ServiceSelector(this, dependencyKey)
SelectorHandle(d) == [kind |-> "selector", of |-> 0, members |-> d.values]

NoError == [class |-> "none", by |-> "none", at |-> 0]

\* new ServiceFactoryNotFoundError(...) thrown by get call t
NotFoundError(t) == [class |-> "ServiceFactoryNotFoundError", by |-> "get", at |-> t]

\* an error of class c thrown by constructor invocation r
ConstructorError(c, r) == [class |-> c, by |-> "initialize", at |-> r]

ErrorClasses == {"Error", "ServiceFactoryNotFoundError"}

VARIABLES entries, result, tasks, runs, cache, disposal

vars == <<entries, result, tasks, runs, cache, disposal>>

\* The last call of dispose: its scope, the disposers it called, the one that
\* threw, and how many get calls and constructor invocations had been made
\* when it was called
NoDisposal ==
    [called |-> FALSE, scope |-> NoScope, invoked |-> <<>>, threw |-> 0,
     err |-> NoError, calls |-> 0, made |-> 0]

Idle ==
    /\ tasks = <<>>
    /\ runs = <<>>
    /\ cache = [i \in {} |-> 0]
    /\ disposal = NoDisposal

InitFrom ==
    /\ entries = <<>>
    /\ result = from(<<>>)
    /\ Idle

\* ServiceModule.from([...entries, e])
From(e) ==
    /\ Len(entries) < MaxEntries
    /\ entries' = Append(entries, e)
    /\ result' = from(entries')
    /\ UNCHANGED <<tasks, runs, cache, disposal>>

FromFactory == \E f \in FactoryPool : From(FactoryEntry(f))

FromModule == \E m \in ModulePool : From(ModuleEntry(m))

NextFrom == FromFactory \/ FromModule

SpecFrom == InitFrom /\ [][NextFrom]_vars

\* ------------------------------------------------------------------------
\* Resolution: get, getOrNull, the Selector handle, dispose
\* ------------------------------------------------------------------------
\* this.factories of the module that from returned
Module == result.factories

\* One call of get.  parent is the get call whose Promise.all awaits it (0
\* for a call made by a client or through a Selector handle), slot its
\* position in the parent's dependsOn, selRun the constructor invocation
\* that made it through a Selector handle (0 otherwise).  state is "deps"
\* while the call awaits Promise.all, "init" while it awaits the promise
\* that factory.initialize returned, then "resolved" or "rejected".
Task(k, fi, p, sl, sr, orNull, st, e) ==
    [key |-> k, f |-> fi, parent |-> p, slot |-> sl, selRun |-> sr,
     orNull |-> orNull, state |-> st, run |-> 0, value |-> NoValue, err |-> e]

RECURSIVE Reject(_, _, _)

\* A get that wraps the error of a dependency in an error of its own
Reject_Wrapped(ts, t, e) ==
    LET rejected == [ts EXCEPT ![t].state = "rejected", ![t].err = e]
        p == ts[t].parent
    IN  IF p # 0 /\ rejected[p].state = "deps"
        THEN Reject(rejected, p, [class |-> "Error", by |-> "get", at |-> p])
        ELSE rejected

\* A join that rejects only when every sibling has settled
Reject_AllSettled(ts, t, e) ==
    LET rejected == [ts EXCEPT ![t].state = "rejected", ![t].err = e]
        p == ts[t].parent
    IN  IF /\ p # 0
           /\ rejected[p].state = "deps"
           /\ \A c \in 1..Len(ts) :
                 rejected[c].parent = p =>
                    rejected[c].state \in {"resolved", "rejected"}
        THEN Reject(rejected, p, e)
        ELSE rejected

\* The rejection of get call t with error e: an awaiting Promise.all, and
\* with it the parent call, is rejected with the first error it sees
Reject(ts, t, e) ==
    LET rejected == [ts EXCEPT ![t].state = "rejected", ![t].err = e]
        p == ts[t].parent
    IN  IF p # 0 /\ rejected[p].state = "deps"
        THEN Reject(rejected, p, e)
        ELSE rejected

RECURSIVE RejectAll(_, _, _)
RejectAll(ts, awaiting, e) ==
    IF awaiting = {} THEN ts
    ELSE LET t == CHOOSE x \in awaiting : TRUE
         IN  RejectAll(Reject(ts, t, e), awaiting \ {t}, e)

\* The synchronous part of get(key): find the factory, throw when there is
\* none, else call get for every plain dependency, in dependsOn order
RECURSIVE SpawnGet(_, _, _, _, _, _)
RECURSIVE SpawnDeps(_, _, _, _)
SpawnGet(ts, key, p, sl, sr, orNull) ==
    LET fi == FindFactory(key, Module)
        t == Len(ts) + 1
    IN  IF fi = 0
        THEN Reject(Append(ts, Task(key, 0, p, sl, sr, orNull, "deps", NoError)),
                    t, NotFoundError(t))
        ELSE SpawnDeps(Append(ts, Task(key, fi, p, sl, sr, orNull, "deps", NoError)),
                       t, Module[fi].dependsOn, 1)

\* A get that resolves the first member of a selector key at once
SpawnDeps_Eager(ts, t, dependsOn, i) ==
    IF i > Len(dependsOn) THEN ts
    ELSE SpawnDeps(SpawnGet(ts, IF dependsOn[i].sel THEN dependsOn[i].values[1]
                                                     ELSE dependsOn[i].key,
                            t, i, 0, FALSE),
                   t, dependsOn, i + 1)

SpawnDeps(ts, t, dependsOn, i) ==
    IF i > Len(dependsOn) THEN ts
    ELSE IF dependsOn[i].sel THEN SpawnDeps(ts, t, dependsOn, i + 1)
    ELSE SpawnDeps(SpawnGet(ts, dependsOn[i].key, t, i, 0, FALSE),
                   t, dependsOn, i + 1)

ChildrenOf(t) == {c \in 1..Len(tasks) : tasks[c].parent = t}

ChildAt(t, i) == CHOOSE c \in ChildrenOf(t) : tasks[c].slot = i

\* The values in the opposite order
Dependencies_Reversed(t) ==
    LET dependsOn == Module[tasks[t].f].dependsOn
        n == Len(dependsOn)
    IN  [i \in 1..n |->
            IF dependsOn[n + 1 - i].sel THEN SelectorHandle(dependsOn[n + 1 - i])
            ELSE tasks[ChildAt(t, n + 1 - i)].value]

\* the values of Promise.all, in dependsOn order
Dependencies(t) ==
    LET dependsOn == Module[tasks[t].f].dependsOn
    IN  [i \in 1..Len(dependsOn) |->
            IF dependsOn[i].sel THEN SelectorHandle(dependsOn[i])
            ELSE tasks[ChildAt(t, i)].value]

\* One invocation of a factory's constructor
Run(id, args) == [factory |-> id, args |-> args, state |-> "running", err |-> NoError]

\* A factory that caches nothing
Initialize_NeverCached(f, args) ==
    [runs |-> Append(runs, Run(f.id, args)), cache |-> cache, run |-> Len(runs) + 1]

\* A factory that caches whatever its scope
Initialize_AlwaysCached(f, args) ==
    IF f.id \in DOMAIN cache
    THEN [runs |-> runs, cache |-> cache, run |-> cache[f.id]]
    ELSE [runs |-> Append(runs, Run(f.id, args)),
          cache |-> cache @@ (f.id :> Len(runs) + 1), run |-> Len(runs) + 1]

\* A factory that keeps a failure: once an invocation of its constructor
\* has failed, every later call gets that failure
Initialize_FailureKept(f, args) ==
    LET failed == {r \in 1..Len(runs) :
                      runs[r].factory = f.id /\ runs[r].state = "failed"}
    IN  IF failed # {}
        THEN [runs |-> runs, cache |-> cache, run |-> CHOOSE r \in failed : TRUE]
        ELSE [runs |-> Append(runs, Run(f.id, args)), cache |-> cache,
              run |-> Len(runs) + 1]

\* factory.initialize(...dependencies): a oneShot factory invokes its
\* constructor; a singleton factory invokes it on the first call, caches
\* the pending outcome at once and hands the cached outcome to later calls
FactoryInitialize(f, args) ==
    IF f.singleton
    THEN IF f.id \in DOMAIN cache
         THEN [runs |-> runs, cache |-> cache, run |-> cache[f.id]]
         ELSE [runs |-> Append(runs, Run(f.id, args)),
               cache |-> cache @@ (f.id :> Len(runs) + 1),
               run |-> Len(runs) + 1]
    ELSE [runs |-> Append(runs, Run(f.id, args)), cache |-> cache,
          run |-> Len(runs) + 1]

\* get call t returns the promise of constructor invocation r
Adopt(ts, t, r, rs) ==
    LET waiting == [ts EXCEPT ![t].run = r]
    IN  CASE rs[r].state = "running" -> [waiting EXCEPT ![t].state = "init"]
          [] rs[r].state = "done" ->
                [waiting EXCEPT ![t].state = "resolved", ![t].value = Instance(r)]
          [] rs[r].state = "failed" -> Reject(waiting, t, rs[r].err)

ClientCalls == {t \in 1..Len(tasks) : tasks[t].parent = 0 /\ tasks[t].selRun = 0}

SelectorCalls == {t \in 1..Len(tasks) : tasks[t].parent = 0 /\ tasks[t].selRun # 0}

\* module.get(key), called by a client
Get(key) ==
    /\ Cardinality(ClientCalls) < MaxCalls
    /\ tasks' = SpawnGet(tasks, key, 0, 0, 0, FALSE)
    /\ Len(tasks') <= MaxTasks
    /\ UNCHANGED <<entries, result, runs, cache, disposal>>

\* module.getOrNull(key), called by a client
GetOrNull(key) ==
    /\ Cardinality(ClientCalls) < MaxCalls
    /\ tasks' = SpawnGet(tasks, key, 0, 0, 0, TRUE)
    /\ Len(tasks') <= MaxTasks
    /\ UNCHANGED <<entries, result, runs, cache, disposal>>

\* A get that keeps the instances it has handed out, and hands out the
\* first one of the factory again
Initialize_Memoized(t) ==
    /\ tasks[t].state = "deps"
    /\ \A c \in ChildrenOf(t) : tasks[c].state = "resolved"
    /\ LET f == Module[tasks[t].f]
           made == {r \in 1..Len(runs) : runs[r].factory = f.id}
           called == IF made = {}
                     THEN FactoryInitialize(f, Dependencies(t))
                     ELSE [runs |-> runs, cache |-> cache,
                           run |-> CHOOSE r \in made : \A q \in made : r <= q]
       IN  /\ runs' = called.runs
           /\ cache' = called.cache
           /\ tasks' = Adopt(tasks, t, called.run, called.runs)
    /\ UNCHANGED <<entries, result, disposal>>

\* A get that calls factory.initialize without awaiting its dependencies
Initialize_Unawaited(t) ==
    /\ tasks[t].state = "deps"
    /\ LET called == FactoryInitialize(Module[tasks[t].f], Dependencies(t))
       IN  /\ runs' = called.runs
           /\ cache' = called.cache
           /\ tasks' = Adopt(tasks, t, called.run, called.runs)
    /\ UNCHANGED <<entries, result, disposal>>

\* Promise.all of get call t has resolved: factory.initialize is called
Initialize(t) ==
    /\ tasks[t].state = "deps"
    /\ \A c \in ChildrenOf(t) : tasks[c].state = "resolved"
    /\ LET called == FactoryInitialize(Module[tasks[t].f], Dependencies(t))
       IN  /\ runs' = called.runs
           /\ cache' = called.cache
           /\ tasks' = Adopt(tasks, t, called.run, called.runs)
    /\ UNCHANGED <<entries, result, disposal>>

Awaiting(r) == {t \in 1..Len(tasks) : tasks[t].state = "init" /\ tasks[t].run = r}

RECURSIVE ResolveAll(_, _, _)

\* A promise that wakes one of the get calls that await it
ResolveAll_FirstOnly(ts, awaiting, r) ==
    IF awaiting = {} THEN ts
    ELSE LET t == CHOOSE x \in awaiting : TRUE
         IN  [ts EXCEPT ![t].state = "resolved", ![t].value = Instance(r)]

ResolveAll(ts, awaiting, r) ==
    IF awaiting = {} THEN ts
    ELSE LET t == CHOOSE x \in awaiting : TRUE
         IN  ResolveAll([ts EXCEPT ![t].state = "resolved",
                                   ![t].value = Instance(r)],
                        awaiting \ {t}, r)

\* constructor invocation r resolves with a new instance
ConstructorReturns(r) ==
    /\ runs[r].state = "running"
    /\ runs' = [runs EXCEPT ![r].state = "done"]
    /\ tasks' = ResolveAll(tasks, Awaiting(r), r)
    /\ UNCHANGED <<entries, result, cache, disposal>>

Fail(r, e) ==
    /\ runs[r].state = "running"
    /\ runs' = [runs EXCEPT ![r].state = "failed", ![r].err = e]
    /\ tasks' = RejectAll(tasks, Awaiting(r), e)
    /\ UNCHANGED <<entries, result, cache, disposal>>

\* constructor invocation r throws, or rejects with, an error of its own
ConstructorThrows(r, class) == Fail(r, ConstructorError(class, r))

\* constructor invocation r lets the error of a fetch that it made through
\* its Selector handle escape
ConstructorRethrows(r, t) ==
    /\ tasks[t].selRun = r
    /\ tasks[t].state = "rejected"
    /\ Fail(r, tasks[t].err)

SelectorMembers(f) ==
    UNION {Range(f.dependsOn[i].values) :
              i \in {j \in 1..Len(f.dependsOn) : f.dependsOn[j].sel}}

FactoryById(id) == CHOOSE f \in Range(Module) : f.id = id

\* A Selector that constructs the member itself instead of asking the module
SelectorGet_OwnConstruction(r, key) ==
    /\ runs[r].state = "running"
    /\ key \in SelectorMembers(FactoryById(runs[r].factory))
    /\ Cardinality(SelectorCalls) < MaxSelectorGets
    /\ Len(tasks) < MaxTasks
    /\ LET fi == FindFactory(key, Module)
       IN  /\ runs' = Append(runs, Run(Module[fi].id, <<>>))
           /\ tasks' = Append(tasks,
                 [Task(key, fi, 0, 0, r, FALSE, "init", NoError)
                     EXCEPT !.run = Len(runs) + 1])
    /\ UNCHANGED <<entries, result, cache, disposal>>

\* selector.get(key), called by constructor invocation r for a member key
SelectorGet(r, key) ==
    /\ runs[r].state = "running"
    /\ key \in SelectorMembers(FactoryById(runs[r].factory))
    /\ Cardinality(SelectorCalls) < MaxSelectorGets
    /\ tasks' = SpawnGet(tasks, key, 0, 0, r, FALSE)
    /\ Len(tasks') <= MaxTasks
    /\ UNCHANGED <<entries, result, runs, cache, disposal>>

\* A selection that disregards the scope
Selected_AllFactories(scope) == Module

\* this.factories.filter((f) => f.scope === scope), or all without a scope
Selected(scope) ==
    IF scope # NoScope
    THEN SelectSeq(Module, LAMBDA f : f.scope = scope)
    ELSE Module

\* factory.dispose?.(): the factories whose disposer is called
WithDisposer(fs) == SelectSeq(fs, LAMBDA f : f.hasDispose)

\* Disposers that drop the cached outcome of their factory
DisposeHooks_ClearCache(c, ids) == [id \in DOMAIN c \ ids |-> c[id]]

\* The dispose hooks of the factories ids, run on the singleton cache c:
\* they clean up and leave the cached outcomes where they are
DisposeHooks(c, ids) == c

\* the error that the disposer of factory id throws
DisposerError(id) == [class |-> "Error", by |-> "dispose", at |-> id]

\* A dispose that calls the remaining disposers after one has thrown, and
\* throws the error at the end
Dispose_GoesOn(scope, n) ==
    LET called == WithDisposer(Selected(scope))
    IN  /\ n <= Len(called)
        /\ disposal' =
              [called |-> TRUE, scope |-> scope,
               invoked |-> [i \in 1..Len(called) |-> called[i].id],
               threw |-> IF n = 0 THEN 0 ELSE called[n].id,
               err |-> IF n = 0 THEN NoError ELSE DisposerError(called[n].id),
               calls |-> Len(tasks), made |-> Len(runs)]
        /\ cache' = DisposeHooks(cache, {called[i].id : i \in 1..Len(called)})
        /\ UNCHANGED <<entries, result, tasks, runs>>

\* module.dispose(scope): the disposers are called in order; the n-th one
\* throws (n = 0: none does), which ends the forEach and reaches the caller
Dispose(scope, n) ==
    LET called == WithDisposer(Selected(scope))
        invoked == [i \in 1..(IF n = 0 THEN Len(called) ELSE n) |-> called[i].id]
    IN  /\ n <= Len(called)
        /\ disposal' =
              [called |-> TRUE, scope |-> scope, invoked |-> invoked,
               threw |-> IF n = 0 THEN 0 ELSE called[n].id,
               err |-> IF n = 0 THEN NoError ELSE DisposerError(called[n].id),
               calls |-> Len(tasks), made |-> Len(runs)]
        /\ cache' = DisposeHooks(cache, Range(invoked))
        /\ UNCHANGED <<entries, result, tasks, runs>>

\* What the promise of get call t has settled to, if it has
GetOutcome(t) ==
    CASE tasks[t].state = "resolved" ->
            [status |-> "value", value |-> tasks[t].value, err |-> NoError]
      [] tasks[t].state = "rejected" ->
            [status |-> "error", value |-> NoValue, err |-> tasks[t].err]
      [] OTHER -> [status |-> "pending", value |-> NoValue, err |-> NoError]

\* What the promise of getOrNull has settled to: that of the get call t it
\* awaits, with an error that is a ServiceFactoryNotFoundError caught
GetOrNullOutcome(t) ==
    IF /\ GetOutcome(t).status = "error"
       /\ GetOutcome(t).err.class = "ServiceFactoryNotFoundError"
    THEN [status |-> "value", value |-> Null, err |-> NoError]
    ELSE GetOutcome(t)

\* What the client that made call t sees
Outcome(t) == IF tasks[t].orNull THEN GetOrNullOutcome(t) ELSE GetOutcome(t)

Init ==
    /\ entries \in Scenarios
    /\ result = from(entries)
    /\ Idle

Next ==
    \/ \E key \in RequestKeys : Get(key)
    \/ \E key \in RequestKeys : GetOrNull(key)
    \/ \E t \in 1..Len(tasks) : Initialize(t)
    \/ \E r \in 1..Len(runs) : ConstructorReturns(r)
    \/ \E r \in 1..Len(runs) : \E class \in ErrorClasses : ConstructorThrows(r, class)
    \/ \E r \in 1..Len(runs) : \E t \in 1..Len(tasks) : ConstructorRethrows(r, t)
    \/ \E r \in 1..Len(runs) : \E key \in Keys : SelectorGet(r, key)

Spec == Init /\ [][Next]_vars

\* Resolution with every continuation run and every constructor settling:
\* the job queue runs the continuation of an await whose promise has
\* settled, and the constructors are taken to settle
NextLive ==
    \/ \E key \in RequestKeys : Get(key)
    \/ \E t \in 1..Len(tasks) : Initialize(t)
    \/ \E r \in 1..Len(runs) : ConstructorReturns(r)
    \/ \E r \in 1..Len(runs) : ConstructorThrows(r, "Error")
    \/ \E r \in 1..Len(runs) : \E key \in Keys : SelectorGet(r, key)

SpecLive ==
    /\ Init
    /\ [][NextLive]_vars
    /\ WF_vars(\E t \in 1..Len(tasks) : Initialize(t))
    /\ WF_vars(\E r \in 1..Len(runs) :
                  ConstructorReturns(r) \/ ConstructorThrows(r, "Error"))

\* Disposal among calls of get: dispose neither reads nor writes what the
\* resolution of a key works on
NextDispose ==
    \/ \E key \in RequestKeys : Get(key)
    \/ \E t \in 1..Len(tasks) : Initialize(t)
    \/ \E r \in 1..Len(runs) : ConstructorReturns(r)
    \/ \E scope \in Scopes \cup {NoScope} : \E n \in 0..Len(Module) : Dispose(scope, n)

SpecDispose == Init /\ [][NextDispose]_vars

\* ------------------------------------------------------------------------
\* The dependency graph of a factory sequence, stated without the traversal
\* ------------------------------------------------------------------------
Provided(fs) == {fs[i].provides : i \in 1..Len(fs)}

References(f) ==
    UNION {IF f.dependsOn[i].sel THEN Range(f.dependsOn[i].values)
                                 ELSE {f.dependsOn[i].key} :
           i \in 1..Len(f.dependsOn)}

Edges(fs) ==
    {e \in Provided(fs) \X Provided(fs) :
        \E i \in 1..Len(fs) : fs[i].provides = e[1] /\ e[2] \in References(fs[i])}

RECURSIVE ReachableFrom(_, _)
ReachableFrom(S, E) ==
    LET more == S \cup {e[2] : e \in {x \in E : x[1] \in S}}
    IN  IF more = S THEN S ELSE ReachableFrom(more, E)

OnCycle(k, fs) ==
    k \in ReachableFrom({e[2] : e \in {x \in Edges(fs) : x[1] = k}}, Edges(fs))

HasCycle(fs) == \E k \in Provided(fs) : OnCycle(k, fs)

\* a cycle can be reached from key k
LeadsToCycle(k, fs) == \E c \in ReachableFrom({k}, Edges(fs)) : OnCycle(c, fs)

Unprovided(f, fs) == References(f) \ Provided(fs)

HasMissing(fs) == \E i \in 1..Len(fs) : Unprovided(fs[i], fs) # {}

UniqueProviders(fs) ==
    \A i, j \in 1..Len(fs) : fs[i].provides = fs[j].provides => i = j

Flattened == Flatten(entries)

Deduplicated == Dedup(Flattened)

NoDuplicates(s) == \A i, j \in 1..Len(s) : s[i] = s[j] => i = j

\* ------------------------------------------------------------------------
\* C3: a module returned by from has one factory per key, an acyclic
\* dependency graph (selector members expanded) and every dependency key
\* provided; when the deduplicated set has a cycle or a missing key, from
\* raises a module-init error and returns no module.
\* ------------------------------------------------------------------------
C3_ModuleIsValid ==
    /\ result.kind = "module" =>
          /\ UniqueProviders(result.factories)
          /\ ~HasCycle(result.factories)
          /\ ~HasMissing(result.factories)
          /\ result.factories = Deduplicated
    /\ (HasCycle(Deduplicated) \/ HasMissing(Deduplicated)) =>
          /\ result.kind \in {"cycle", "missing"}
          /\ result.factories = <<>>

C3_Witness ==
    /\ result.kind = "module"
    /\ Len(result.factories) = 3
    /\ Len(Flattened) > 3
    /\ \E i \in 1..3 : \E d \in Range(result.factories[i].dependsOn) : d.sel

\* ------------------------------------------------------------------------
\* C4 as stated: with a cycle in the set, from fails with a cycle error
\* whose path follows dependency edges and has the repeated key as its
\* first and its last element.
\* ------------------------------------------------------------------------
FollowsEdges(p, fs) ==
    \A i \in 1..(Len(p) - 1) : <<p[i], p[i + 1]>> \in Edges(fs)

C4_RepeatedKeyFirstAndLast ==
    HasCycle(Deduplicated) =>
        /\ result.kind = "cycle"
        /\ Len(result.path) >= 2
        /\ FollowsEdges(result.path, Deduplicated)
        /\ result.path[1] = result.path[Len(result.path)]

\* C4 amended: with a cycle in the set, from fails with a cycle error whose
\* path is the traversal path: it starts at the first factory in module
\* order from which a cycle can be reached, follows dependency edges and
\* ends at the repeated key, which occurs exactly once before, so that the
\* path from that occurrence on is the cycle; the keys before the last are
\* pairwise distinct.  Without a cycle there is no cycle error.
C4_PathEndsWithCycle ==
    /\ HasCycle(Deduplicated) =>
          /\ result.kind = "cycle"
          /\ result.factories = <<>>
          /\ LET p == result.path
                 n == Len(p)
             IN  /\ n >= 2
                 /\ \E i \in 1..Len(Deduplicated) :
                       /\ p[1] = Deduplicated[i].provides
                       /\ LeadsToCycle(p[1], Deduplicated)
                       /\ \A j \in 1..(i - 1) :
                             ~LeadsToCycle(Deduplicated[j].provides, Deduplicated)
                 /\ FollowsEdges(p, Deduplicated)
                 /\ \E i \in 1..(n - 1) : p[i] = p[n]
                 /\ NoDuplicates(SubSeq(p, 1, n - 1))
                 /\ OnCycle(p[n], Deduplicated)
    /\ result.kind = "cycle" => HasCycle(Deduplicated)

\* the traversal reaches a cycle of two keys from a factory outside it
C4_Witness ==
    /\ result.kind = "cycle"
    /\ Len(result.path) = 4
    /\ result.path[2] = result.path[4]
    /\ result.path[1] # result.path[4]

\* ------------------------------------------------------------------------
\* C5 as stated: with an unprovided reference in the set, from fails with
\* a missing-dependency error that names a factory with such a reference
\* and lists exactly its unprovided keys, none twice.
\* ------------------------------------------------------------------------
C5_ExactMissingSet ==
    HasMissing(Deduplicated) =>
        /\ result.kind = "missing"
        /\ Unprovided(result.offender, Deduplicated) # {}
        /\ Range(result.missing) = Unprovided(result.offender, Deduplicated)
        /\ NoDuplicates(result.missing)

Occurrences(k, s) == Cardinality({i \in 1..Len(s) : s[i] = k})

\* C5 amended: with an unprovided reference and no cycle in the set, from
\* fails with a missing-dependency error that names the first factory in
\* module order with such a reference and lists its unprovided references
\* in dependsOn order: every missing key is listed, no provided key is, and
\* a key is listed once per reference to it.  With a cycle in the set the
\* cycle error is raised instead.
C5_MissingListedPerReference ==
    /\ (HasMissing(Deduplicated) /\ ~HasCycle(Deduplicated)) =>
          /\ result.kind = "missing"
          /\ result.factories = <<>>
          /\ \E i \in 1..Len(Deduplicated) :
                /\ result.offender = Deduplicated[i]
                /\ Unprovided(Deduplicated[i], Deduplicated) # {}
                /\ \A j \in 1..(i - 1) :
                      Unprovided(Deduplicated[j], Deduplicated) = {}
          /\ Range(result.missing) = Unprovided(result.offender, Deduplicated)
          /\ \A k \in Range(result.missing) :
                Occurrences(k, result.missing)
                   = Occurrences(k, KeysToCheck(result.offender.dependsOn))
    /\ (HasMissing(Deduplicated) /\ HasCycle(Deduplicated)) =>
          result.kind = "cycle"
    /\ result.kind = "missing" => HasMissing(Deduplicated)

\* the offender is not the first factory and one missing key is listed twice
C5_Witness ==
    /\ result.kind = "missing"
    /\ Len(result.missing) = 2
    /\ result.missing[1] = result.missing[2]
    /\ Len(Deduplicated) >= 2
    /\ result.offender # Deduplicated[1]

\* ------------------------------------------------------------------------
\* C6: for an acyclic set with every reference provided, from succeeds and
\* the module has as many factories as the flattened input has distinct
\* provided keys.
\* ------------------------------------------------------------------------
C6_SucceedsWithOneFactoryPerKey ==
    (~HasCycle(Deduplicated) /\ ~HasMissing(Deduplicated)) =>
        /\ result.kind = "module"
        /\ Len(result.factories) = Cardinality(Provided(Flattened))
        /\ Provided(result.factories) = Provided(Flattened)

\* a DAG in which two factories share a dependency, with an overridden entry
C6_Witness ==
    /\ result.kind = "module"
    /\ Len(Flattened) > Len(result.factories)
    /\ \E i, j \in 1..Len(result.factories) :
          /\ i # j
          /\ References(result.factories[i])
                \cap References(result.factories[j]) # {}

\* ------------------------------------------------------------------------
\* Claims on resolution
\* ------------------------------------------------------------------------
RunsOf(id) == {r \in 1..Len(runs) : runs[r].factory = id}

CallsFor(i) == {t \in 1..Len(tasks) : tasks[t].f = i}

\* the calls for which factory.initialize has been called
Initialized(i) == {t \in CallsFor(i) : tasks[t].run # 0}

\* ------------------------------------------------------------------------
\* C1: the constructor of a singleton factory is invoked at most once per
\* module, exactly once as soon as initialize has been called for some get
\* call of its key, however many such calls there are and also when they
\* arrive while the construction is pending; all of them await that one
\* invocation and those that resolve hold the same instance.
\* ------------------------------------------------------------------------
C1_SingletonConstructedOnce ==
    \A i \in 1..Len(Module) :
        Module[i].singleton =>
            /\ Cardinality(RunsOf(Module[i].id)) <= 1
            /\ Initialized(i) # {} => Cardinality(RunsOf(Module[i].id)) = 1
            /\ \A t \in Initialized(i) : tasks[t].run \in RunsOf(Module[i].id)
            /\ \A t, u \in CallsFor(i) :
                  (tasks[t].state = "resolved" /\ tasks[u].state = "resolved")
                     => tasks[t].value = tasks[u].value

\* two client calls for a singleton with a dependency have resolved to one
\* instance; the second was made before the constructor was invoked, its
\* dependency having been constructed before the singleton was
C1_Witness ==
    \E t, u \in ClientCalls :
        /\ t < u
        /\ tasks[t].f # 0 /\ tasks[t].f = tasks[u].f
        /\ Module[tasks[t].f].singleton
        /\ tasks[t].state = "resolved" /\ tasks[u].state = "resolved"
        /\ tasks[t].value = tasks[u].value
        /\ tasks[t].value = Instance(tasks[t].run)
        /\ \E c \in ChildrenOf(u) : tasks[c].run < tasks[t].run

\* ------------------------------------------------------------------------
\* C2: every get call for the key of a transient factory that comes to call
\* initialize invokes the constructor once more: N such calls make N
\* invocations, no two calls share one, and the calls that resolve hold
\* pairwise distinct instances.
\* ------------------------------------------------------------------------
C2_TransientConstructedPerCall ==
    \A i \in 1..Len(Module) :
        ~Module[i].singleton =>
            /\ Cardinality(RunsOf(Module[i].id)) = Cardinality(Initialized(i))
            /\ \A t \in Initialized(i) : tasks[t].run \in RunsOf(Module[i].id)
            /\ \A t, u \in Initialized(i) :
                  t # u =>
                     /\ tasks[t].run # tasks[u].run
                     /\ (tasks[t].state = "resolved" /\ tasks[u].state = "resolved")
                           => tasks[t].value # tasks[u].value

C2_Witness ==
    \E t, u \in ClientCalls :
        /\ t # u
        /\ tasks[t].f # 0 /\ tasks[t].f = tasks[u].f
        /\ ~Module[tasks[t].f].singleton
        /\ tasks[t].state = "resolved" /\ tasks[u].state = "resolved"
        /\ tasks[t].value # tasks[u].value
        /\ Cardinality(RunsOf(Module[tasks[t].f].id)) = 2

\* ------------------------------------------------------------------------
\* C7: last-wins deduplication.  For every key provided in the flattened
\* entries the module holds exactly one factory, the last one of the
\* flattened sequence that provides the key; a get call for the key resolves
\* to an instance made by that factory, and no constructor of an overridden
\* factory is ever invoked.
\* ------------------------------------------------------------------------
LastProvider(key, flattened) ==
    flattened[CHOOSE i \in 1..Len(flattened) :
                 /\ flattened[i].provides = key
                 /\ \A j \in (i + 1)..Len(flattened) : flattened[j].provides # key]

C7_LastWins ==
    /\ result.kind = "module"
    /\ \A key \in Provided(Flattened) :
          /\ Cardinality({i \in 1..Len(Module) : Module[i].provides = key}) = 1
          /\ \A i \in 1..Len(Module) :
                Module[i].provides = key => Module[i] = LastProvider(key, Flattened)
    /\ Provided(Module) = Provided(Flattened)
    /\ \A r \in 1..Len(runs) :
          \E key \in Provided(Flattened) :
              runs[r].factory = LastProvider(key, Flattened).id
    /\ \A t \in 1..Len(tasks) :
          tasks[t].state = "resolved" =>
              /\ tasks[t].value.kind = "instance"
              /\ runs[tasks[t].value.of].factory
                    = LastProvider(tasks[t].key, Flattened).id

\* a call has resolved for a key that a module entry and two factory
\* entries provide
C7_Witness ==
    \E t \in ClientCalls :
        /\ tasks[t].state = "resolved"
        /\ Cardinality({i \in 1..Len(Flattened) :
                           Flattened[i].provides = tasks[t].key}) = 3
        /\ \E e \in Range(entries) : e.module

\* ------------------------------------------------------------------------
\* C8 as stated: getOrNull(key) resolves to null exactly when the module
\* provides no factory for the key; otherwise its outcome is that of
\* get(key), errors raised inside an initialize included.
\* ------------------------------------------------------------------------
C8_NullOnlyWhenNotProvided ==
    \A t \in ClientCalls :
        tasks[t].orNull =>
            /\ (Outcome(t).status = "value" /\ Outcome(t).value = Null)
                  <=> ~isRegistered(tasks[t].key, Module)
            /\ isRegistered(tasks[t].key, Module) => Outcome(t) = GetOutcome(t)

\* ------------------------------------------------------------------------
\* C9: get(key) throws the factory-not-found error if and only if the
\* module has no factory that provides the key, and then it calls get for
\* no dependency and invokes no constructor; no get call made for a
\* dependency or through a Selector handle throws it, and no call is
\* rejected with the error that another call threw.
\* ------------------------------------------------------------------------
C9_NotFoundOnlyWhenNotProvided ==
    \A t \in 1..Len(tasks) :
        /\ tasks[t].f = 0 <=> ~isRegistered(tasks[t].key, Module)
        /\ tasks[t].f = 0 <=>
              (tasks[t].state = "rejected" /\ tasks[t].err.by = "get")
        /\ tasks[t].f = 0 =>
              /\ tasks[t].err = NotFoundError(t)
              /\ tasks[t].run = 0
              /\ ChildrenOf(t) = {}
        /\ (tasks[t].parent # 0 \/ tasks[t].selRun # 0) => tasks[t].f # 0

\* a call for an unregistered key was rejected before any constructor was
\* invoked, and a later call for a key with a dependency, made through
\* getOrNull, has resolved
C9_Witness ==
    /\ Len(tasks) >= 2
    /\ tasks[1].state = "rejected"
    /\ tasks[1].err = NotFoundError(1)
    /\ tasks[2].state = "resolved"
    /\ tasks[2].orNull
    /\ ChildrenOf(2) # {}

\* ------------------------------------------------------------------------
\* C10: dispose(scope) calls the disposer of no factory other than those
\* whose scope is the given one and that have a disposer, dispose() of no
\* factory other than those that have one; each is called at most once,
\* and all of them are called unless a disposer throws; a factory without
\* a disposer is passed over, so an error of dispose is one that a called
\* disposer threw.
\* ------------------------------------------------------------------------
ToDispose(scope) ==
    {f.id : f \in {g \in Range(Module) :
                      /\ g.hasDispose
                      /\ scope # NoScope => g.scope = scope}}

C10_DisposesTheScope ==
    disposal.called =>
        /\ Range(disposal.invoked) \subseteq ToDispose(disposal.scope)
        /\ NoDuplicates(disposal.invoked)
        /\ disposal.threw = 0 =>
              Range(disposal.invoked) = ToDispose(disposal.scope)
        /\ disposal.threw # 0 => disposal.threw \in Range(disposal.invoked)

\* dispose(Scope1) returned: it called one disposer, passed over a factory
\* of the scope that has none, and left the disposer of another scope alone
C10_Witness ==
    /\ disposal.called
    /\ disposal.scope = Scope1
    /\ disposal.threw = 0
    /\ Len(disposal.invoked) = 1
    /\ \E f \in Range(Module) : f.scope = Scope1 /\ ~f.hasDispose
    /\ \E f \in Range(Module) : f.scope = Scope2 /\ f.hasDispose
    /\ \E t \in ClientCalls : tasks[t].state = "resolved"

\* ------------------------------------------------------------------------
\* C11: dispose, with or without a scope, leaves the singleton cache as it
\* is: a singleton whose constructor was invoked before the last dispose
\* call is never constructed again, and every get call for its key, made
\* before or after the dispose, awaits that one invocation and resolves to
\* its instance.
\* ------------------------------------------------------------------------
C11_DisposeKeepsCache ==
    disposal.called =>
        \A i \in 1..Len(Module) :
            Module[i].singleton =>
                \A r \in RunsOf(Module[i].id) :
                    r <= disposal.made =>
                        /\ RunsOf(Module[i].id) = {r}
                        /\ Module[i].id \in DOMAIN cache
                        /\ cache[Module[i].id] = r
                        /\ \A t \in Initialized(i) :
                              /\ tasks[t].run = r
                              /\ tasks[t].state = "resolved"
                                    => tasks[t].value = Instance(r)

\* a singleton was constructed, dispose called its disposer, and a get call
\* made after that has resolved to the instance made before
C11_Witness ==
    /\ disposal.called
    /\ \E t \in ClientCalls :
          /\ t > disposal.calls
          /\ tasks[t].f # 0
          /\ Module[tasks[t].f].singleton
          /\ Module[tasks[t].f].id \in Range(disposal.invoked)
          /\ tasks[t].state = "resolved"
          /\ tasks[t].value.of <= disposal.made
          /\ runs[tasks[t].value.of].state = "done"

\* ------------------------------------------------------------------------
\* C12: selector transparency.  A fetch of a member key through the
\* Selector handle is a get of the module for that key: it finds the same
\* factory as every other get call for the key and follows the same
\* caching; for a singleton member both routes await one constructor
\* invocation and resolve to one instance, for a transient member each
\* route has an invocation of its own.
\* ------------------------------------------------------------------------
C12_SelectorTransparency ==
    \A t \in SelectorCalls :
        /\ tasks[t].f = FindFactory(tasks[t].key, Module)
        /\ tasks[t].f # 0
        /\ tasks[t].state = "resolved" =>
              runs[tasks[t].value.of].factory = Module[tasks[t].f].id
        /\ \A u \in 1..Len(tasks) :
              (u # t /\ tasks[u].key = tasks[t].key) =>
                 /\ tasks[u].f = tasks[t].f
                 /\ (tasks[t].run # 0 /\ tasks[u].run # 0) =>
                       IF Module[tasks[t].f].singleton
                       THEN /\ tasks[t].run = tasks[u].run
                            /\ Cardinality(RunsOf(Module[tasks[t].f].id)) = 1
                            /\ (tasks[t].state = "resolved"
                                   /\ tasks[u].state = "resolved")
                                  => tasks[t].value = tasks[u].value
                       ELSE tasks[t].run # tasks[u].run

\* a constructor has fetched singleton member B through its Selector handle
\* and a client has fetched B from the module: one instance for both
C12_Witness ==
    \E t \in SelectorCalls : \E u \in ClientCalls :
        /\ tasks[u].key = tasks[t].key
        /\ Module[tasks[t].f].singleton
        /\ tasks[t].state = "resolved" /\ tasks[u].state = "resolved"
        /\ tasks[t].value = tasks[u].value
        /\ runs[tasks[t].selRun].args[1].kind = "selector"

\* ------------------------------------------------------------------------
\* C13: an error raised by a constructor reaches the caller of get as that
\* same error: a get call that awaits a failed constructor invocation is
\* rejected with the error of the invocation, a get call with a rejected
\* dependency is rejected with the very error of one of its rejected
\* dependencies, and the constructor of its own factory is never invoked
\* for that call.
\* ------------------------------------------------------------------------
C13_ConstructorErrorsPropagate ==
    \A t \in 1..Len(tasks) :
        /\ (tasks[t].run # 0 /\ runs[tasks[t].run].state = "failed") =>
              /\ GetOutcome(t).status = "error"
              /\ GetOutcome(t).err = runs[tasks[t].run].err
        /\ (tasks[t].state = "rejected" /\ tasks[t].err.by = "initialize") =>
              /\ runs[tasks[t].err.at].state = "failed"
              /\ runs[tasks[t].err.at].err = tasks[t].err
        /\ (\E c \in ChildrenOf(t) : tasks[c].state = "rejected") =>
              /\ tasks[t].run = 0
              /\ GetOutcome(t).status = "error"
              /\ \E c \in ChildrenOf(t) :
                    /\ tasks[c].state = "rejected"
                    /\ tasks[c].err = GetOutcome(t).err

\* a client's get is rejected with the error that the constructor of a
\* dependency of a dependency threw
C13_Witness ==
    \E t \in ClientCalls : \E c \in ChildrenOf(t) : \E d \in ChildrenOf(c) :
        /\ tasks[d].run # 0
        /\ runs[tasks[d].run].state = "failed"
        /\ runs[tasks[d].run].err = ConstructorError("Error", tasks[d].run)
        /\ GetOutcome(t).status = "error"
        /\ GetOutcome(t).err = runs[tasks[d].run].err
        /\ tasks[t].run = 0 /\ tasks[c].run = 0

\* ------------------------------------------------------------------------
\* C14: the later get calls for a singleton key
\* ------------------------------------------------------------------------
\* get call c is call u or was made, through plain dependencies, for call u
RECURSIVE InTree(_, _)
InTree(u, c) ==
    \/ c = u
    \/ tasks[c].parent # 0 /\ InTree(u, tasks[c].parent)

\* the get calls for a singleton key that came after the first one for it
LaterSingletonCalls ==
    {u \in 1..Len(tasks) :
        /\ tasks[u].f # 0
        /\ Module[tasks[u].f].singleton
        /\ \E t \in 1..(u - 1) : tasks[t].f = tasks[u].f}

\* C14: a get call for a singleton key that is not the first one for the
\* key starts no new work.  Stated for the time from which the outcome of
\* the singleton is in the cache: from then on no step taken for a later
\* call for the key, or for the calls made for its dependencies, invokes a
\* constructor, neither that of the singleton nor that of a dependency.
C14_LaterGetStartsNoWork ==
    [][\A u \in LaterSingletonCalls : \A c \in 1..Len(tasks) :
          (/\ Module[tasks[u].f].id \in DOMAIN cache
           /\ InTree(u, c)
           /\ tasks[c].run = 0 /\ tasks'[c].run # 0)
             => runs' = runs]_vars

\* ------------------------------------------------------------------------
\* C15: the join of the sibling dependency resolutions of one get call
\* ------------------------------------------------------------------------
Settled(t) == tasks[t].state \in {"resolved", "rejected"}

\* the positions of the plain keys in dependsOn of factory j of the module
PlainSlots_Of(j) ==
    {i \in 1..Len(Module[j].dependsOn) : ~Module[j].dependsOn[i].sel}

PlainSlots(t) == PlainSlots_Of(tasks[t].f)

\* C15 as stated: a get call has settled, with a value or with a failure,
\* only if the get call of every one of its dependencies has settled.
C15_SettlesAfterAllSiblings ==
    \A t \in 1..Len(tasks) :
        Settled(t) => \A c \in ChildrenOf(t) : Settled(c)

\* C15 amended: the get calls for all plain dependencies of a get call exist
\* from the step in which the call was made, one per dependsOn position; the
\* call goes on to its constructor only when every one of them has resolved;
\* and it is rejected as soon as one of them is rejected, whether or not
\* the others have settled.
C15_JoinOnSuccessFailFast ==
    \A t \in 1..Len(tasks) :
        tasks[t].f # 0 =>
            /\ \A i \in PlainSlots(t) :
                  Cardinality({c \in ChildrenOf(t) : tasks[c].slot = i}) = 1
            /\ \A c \in ChildrenOf(t) : tasks[c].slot \in PlainSlots(t)
            /\ (tasks[t].run # 0 \/ tasks[t].state = "resolved") =>
                  \A c \in ChildrenOf(t) : tasks[c].state = "resolved"
            /\ (\E c \in ChildrenOf(t) : tasks[c].state = "rejected") =>
                  tasks[t].state = "rejected"

\* a get call is rejected with the error of one dependency while the
\* constructor of another dependency is still running
C15_Witness ==
    \E t \in 1..Len(tasks) : \E c, d \in ChildrenOf(t) :
        /\ tasks[t].state = "rejected"
        /\ tasks[c].state = "rejected"
        /\ tasks[t].err = tasks[c].err
        /\ tasks[d].state = "init"
        /\ runs[tasks[d].run].state = "running"

\* ------------------------------------------------------------------------
\* C16: the constructor of a factory is invoked only after every one of its
\* plain dependencies has resolved, with the resolved values in dependsOn
\* order: every invocation has one argument per dependsOn position, the
\* argument at a plain position is an instance that a finished invocation
\* of the factory of that dependency made, the argument at a selector
\* position is the handle for that selector key, and the arguments are the
\* values that the get calls for the dependencies of one get call resolved
\* to, each at its position; a get call that has reached its constructor
\* has all its dependencies resolved.
\* ------------------------------------------------------------------------
C16_ArgumentsResolvedInOrder ==
    /\ \A r \in 1..Len(runs) :
          LET dependsOn == FactoryById(runs[r].factory).dependsOn
          IN  /\ Len(runs[r].args) = Len(dependsOn)
              /\ \A i \in 1..Len(dependsOn) :
                    IF dependsOn[i].sel
                    THEN runs[r].args[i] = SelectorHandle(dependsOn[i])
                    ELSE /\ runs[r].args[i].kind = "instance"
                         /\ runs[runs[r].args[i].of].state = "done"
                         /\ runs[runs[r].args[i].of].factory =
                               Module[FindFactory(dependsOn[i].key, Module)].id
              /\ \E t \in 1..Len(tasks) :
                    /\ tasks[t].run = r
                    /\ \A c \in ChildrenOf(t) :
                          /\ tasks[c].state = "resolved"
                          /\ runs[r].args[tasks[c].slot] = tasks[c].value
    /\ \A t \in 1..Len(tasks) :
          tasks[t].run # 0 =>
              \A c \in ChildrenOf(t) : tasks[c].state = "resolved"

\* a constructor with two plain dependencies was invoked with both values
\* in dependsOn order, the constructor of its first dependency having been
\* invoked after the one of its second dependency
C16_Witness ==
    \E r \in 1..Len(runs) :
        LET dependsOn == FactoryById(runs[r].factory).dependsOn
        IN  /\ Len(dependsOn) = 2
            /\ ~dependsOn[1].sel /\ ~dependsOn[2].sel
            /\ runs[r].args[1].of > runs[r].args[2].of
            /\ runs[runs[r].args[1].of].factory =
                  Module[FindFactory(dependsOn[1].key, Module)].id
            /\ runs[runs[r].args[2].of].factory =
                  Module[FindFactory(dependsOn[2].key, Module)].id

\* ------------------------------------------------------------------------
\* C17: no eager resolution of the members of a selector key.  A get call
\* is made by a client, through a Selector handle by a running constructor
\* for one of its member keys, or for a plain dependency of another get
\* call, never for a selector position; and every constructor invocation
\* was made for such a get call of its key.  So the constructor of a factory
\* that is reached only as a member is invoked only for fetches through the
\* handle, and at most once per fetch.
\* ------------------------------------------------------------------------
MemberOnly(i) ==
    \A j \in 1..Len(Module) : \A n \in PlainSlots_Of(j) :
        Module[j].dependsOn[n].key # Module[i].provides

C17_NoEagerResolution ==
    /\ \A t \in 1..Len(tasks) :
          /\ tasks[t].parent # 0 =>
                /\ tasks[t].selRun = 0
                /\ tasks[t].slot \in PlainSlots(tasks[t].parent)
                /\ tasks[t].key =
                      Module[tasks[tasks[t].parent].f].dependsOn[tasks[t].slot].key
          /\ tasks[t].selRun # 0 =>
                tasks[t].key \in
                    SelectorMembers(FactoryById(runs[tasks[t].selRun].factory))
    /\ \A r \in 1..Len(runs) :
          \E t \in 1..Len(tasks) :
              /\ tasks[t].run = r
              /\ tasks[t].f # 0
              /\ Module[tasks[t].f].id = runs[r].factory
    /\ \A i \in 1..Len(Module) :
          MemberOnly(i) =>
              Cardinality(RunsOf(Module[i].id)) <=
                  Cardinality({t \in CallsFor(i) : tasks[t].parent = 0})

\* a client's get of a factory with a selector dependency has resolved and
\* the constructor of a member of the selector key was never invoked
C17_Witness ==
    \E t \in ClientCalls : \E i \in 1..Len(Module) :
        /\ tasks[t].f # 0
        /\ tasks[t].state = "resolved"
        /\ Module[i].provides \in SelectorMembers(Module[tasks[t].f])
        /\ RunsOf(Module[i].id) = {}
        /\ CallsFor(i) = {}

\* ------------------------------------------------------------------------
\* C18: within the resolution tree of one get call, a transient factory
\* reached through k dependency paths has k constructor invocations when
\* the call has resolved (never more, no two paths sharing one), each path
\* receiving an instance of its own, and a singleton factory reached through
\* k paths has one invocation and one instance for all paths.
\* ------------------------------------------------------------------------
PathsTo(u, i) == {c \in CallsFor(i) : InTree(u, c)}

C18_PerBranchConstruction ==
    \A u \in ClientCalls : \A i \in 1..Len(Module) :
        LET paths == PathsTo(u, i)
            made == {tasks[c].run : c \in {d \in paths : tasks[d].run # 0}}
        IN  /\ made \subseteq RunsOf(Module[i].id)
            /\ IF Module[i].singleton
               THEN /\ Cardinality(made) <= 1
                    /\ \A c, d \in paths :
                          (tasks[c].state = "resolved" /\ tasks[d].state = "resolved")
                             => tasks[c].value = tasks[d].value
               ELSE /\ \A c, d \in paths :
                          (c # d /\ tasks[c].run # 0) => tasks[c].run # tasks[d].run
                    /\ \A c \in paths :
                          tasks[c].state = "resolved" =>
                             tasks[c].value = Instance(tasks[c].run)
            /\ tasks[u].state = "resolved" =>
                  /\ \A c \in paths : tasks[c].state = "resolved"
                  /\ Cardinality(made) =
                        IF Module[i].singleton /\ paths # {} THEN 1
                        ELSE Cardinality(paths)

\* one get has resolved whose tree reaches a transient factory through two
\* paths: two invocations, two instances
C18_Witness ==
    \E u \in ClientCalls : \E i \in 1..Len(Module) :
        /\ tasks[u].state = "resolved"
        /\ ~Module[i].singleton
        /\ Cardinality(PathsTo(u, i)) = 2
        /\ Cardinality(RunsOf(Module[i].id)) = 2
        /\ \A c, d \in PathsTo(u, i) : c # d => tasks[c].value # tasks[d].value

\* ------------------------------------------------------------------------
\* C19: a constructor that does not settle
\* ------------------------------------------------------------------------
\* get call c awaits a constructor invocation that has not settled
Stalled(c) ==
    /\ tasks[c].state = "init"
    /\ runs[tasks[c].run].state = "running"

\* C19 as stated: as long as a constructor invocation has not settled, no
\* get call that depends on it, directly or through plain dependencies, has
\* settled, neither with a value nor with a failure, whatever became of the
\* other dependencies in its tree.
C19_DependentsNeverSettle ==
    \A t, c \in 1..Len(tasks) :
        (InTree(t, c) /\ Stalled(c)) => ~Settled(t)

\* C19 amended: as long as a constructor invocation has not settled, no get
\* call that depends on it has resolved; such a call can have failed, and
\* then with the error of another constructor invocation in its tree, one
\* that has failed.
C19_DependentsNeverResolve ==
    \A t, c \in 1..Len(tasks) :
        (InTree(t, c) /\ Stalled(c)) =>
            /\ tasks[t].state # "resolved"
            /\ tasks[t].state = "rejected" =>
                  \E d \in 1..Len(tasks) :
                      /\ InTree(t, d)
                      /\ d # t
                      /\ tasks[d].run # 0
                      /\ tasks[d].run # tasks[c].run
                      /\ runs[tasks[d].run].state = "failed"
                      /\ runs[tasks[d].run].err = tasks[t].err

\* the constructor of a dependency of a dependency has not settled: the get
\* call in between is pending, and the client's get has failed with the
\* error of its other dependency
C19_Witness ==
    \E t \in ClientCalls : \E c \in 1..Len(tasks) :
        /\ InTree(t, c) /\ Stalled(c)
        /\ tasks[c].parent # 0 /\ tasks[c].parent # t
        /\ tasks[tasks[c].parent].state = "deps"
        /\ tasks[t].state = "rejected"
        /\ tasks[t].err.by = "initialize"
        /\ tasks[t].err.at # tasks[c].run

\* ------------------------------------------------------------------------
\* C20: a failed get leaves the module usable.  The factories of the module
\* stay as from built them; a get call is rejected only with the error of a
\* failed constructor invocation in its own tree; every get call that
\* reaches the constructor of a transient factory has an invocation of its
\* own, whatever became of the earlier ones, and resolves to the instance
\* of that invocation when it succeeds.
\* ------------------------------------------------------------------------
C20_FailureConfinedToItsCall ==
    /\ result = from(entries)
    /\ \A t \in 1..Len(tasks) :
          (tasks[t].f # 0 /\ tasks[t].state = "rejected") =>
              \E d \in 1..Len(tasks) :
                  /\ InTree(t, d)
                  /\ tasks[d].run # 0
                  /\ runs[tasks[d].run].state = "failed"
                  /\ runs[tasks[d].run].err = tasks[t].err
    /\ \A i \in 1..Len(Module) :
          ~Module[i].singleton =>
              /\ Cardinality(RunsOf(Module[i].id)) = Cardinality(Initialized(i))
              /\ \A t, u \in Initialized(i) : t # u => tasks[t].run # tasks[u].run
              /\ \A t \in Initialized(i) :
                    runs[tasks[t].run].state = "done" =>
                        /\ tasks[t].state = "resolved"
                        /\ tasks[t].value = Instance(tasks[t].run)

\* a client's get of a transient key failed in the constructor, and a later
\* get of the same key has resolved to an instance of a second invocation
C20_Witness ==
    \E t, u \in ClientCalls :
        /\ t < u
        /\ tasks[t].f # 0 /\ tasks[t].f = tasks[u].f
        /\ ~Module[tasks[t].f].singleton
        /\ tasks[t].state = "rejected"
        /\ tasks[t].run # 0
        /\ tasks[t].err = runs[tasks[t].run].err
        /\ tasks[u].state = "resolved"
        /\ tasks[u].run > tasks[t].run
        /\ tasks[u].value = Instance(tasks[u].run)

\* ------------------------------------------------------------------------
\* C21: termination of get
\* ------------------------------------------------------------------------
\* the get calls for which call c was made, c included
Ancestors(c) == {t \in 1..Len(tasks) : InTree(t, c)}

\* the recursion of get is finite: a get call made for a dependency finds
\* its factory, and no key is requested twice on one path of the tree
FiniteRecursion ==
    \A c \in 1..Len(tasks) :
        /\ tasks[c].parent # 0 => tasks[c].f # 0
        /\ \A t \in Ancestors(c) : t # c => tasks[t].key # tasks[c].key
        /\ Cardinality(Ancestors(c)) <= Len(Module)

\* C21: in a module that from returned the recursion of get over the
\* dependencies is finite, and when every continuation is run and every
\* constructor invocation settles, every get call eventually settles.
C21_GetSettles ==
    /\ []FiniteRecursion
    /\ \A t \in 1..MaxTasks :
          (t <= Len(tasks)) ~> (t <= Len(tasks) /\ Settled(t))

\* a client's get whose tree is two dependencies deep has resolved, the
\* constructor of every call of the tree having returned
C21_Witness ==
    \E t \in ClientCalls : \E c \in ChildrenOf(t) : \E d \in ChildrenOf(c) :
        /\ tasks[t].state = "resolved"
        /\ runs[tasks[t].run].state = "done"
        /\ runs[tasks[c].run].state = "done"
        /\ runs[tasks[d].run].state = "done"
        /\ Cardinality(Ancestors(d)) = 3

\* ------------------------------------------------------------------------
\* C22: dispose calls the disposers of the selected factories one at a
\* time in module order, each at most once; when none throws it calls them
\* all and returns; when one throws, that one is the last it has called,
\* the disposers of the selected factories after it are not called, and the
\* caller of dispose gets the error that the disposer threw.
\* ------------------------------------------------------------------------
SelectedDisposers(scope) ==
    SelectSeq(Module,
              LAMBDA f : f.hasDispose /\ (scope # NoScope => f.scope = scope))

C22_DisposersInOrderUntilThrow ==
    disposal.called =>
        LET selected == SelectedDisposers(disposal.scope)
            n == Len(disposal.invoked)
        IN  /\ n <= Len(selected)
            /\ \A i \in 1..n : disposal.invoked[i] = selected[i].id
            /\ NoDuplicates(disposal.invoked)
            /\ IF disposal.threw = 0
               THEN /\ n = Len(selected)
                    /\ disposal.err = NoError
               ELSE /\ n >= 1
                    /\ disposal.invoked[n] = disposal.threw
                    /\ disposal.err = DisposerError(disposal.threw)

\* dispose() has failed with the error of the first of two disposers, and
\* the second one was not called
C22_Witness ==
    /\ disposal.called
    /\ disposal.scope = NoScope
    /\ Len(SelectedDisposers(NoScope)) = 2
    /\ disposal.invoked = <<SelectedDisposers(NoScope)[1].id>>
    /\ disposal.err = DisposerError(SelectedDisposers(NoScope)[1].id)

====
